---- MODULE Spec2Model ----
(***************************************************************************)
(* A model of the answer-weaver ingestion pipeline:                        *)
(*   src/main.py               run_pipeline (the orchestrator)             *)
(*   src/data_source/reddit.py get_comments_text, fetch_subreddit_posts    *)
(*   src/db/qdrant.py          get_qdrant_client,                          *)
(*                             initialize_qdrant_collection,               *)
(*                             upsert_posts_to_qdrant                      *)
(* Text is modelled as a sequence of tokens (words and the white-space     *)
(* tokens " " and "\n"), so that concatenation, strip() and join() are     *)
(* computed rather than assumed.  The forum, the embedding model and the   *)
(* vector store are external collaborators: what they return, and whether  *)
(* a call to them fails, is an input of the step that calls them.          *)
(***************************************************************************)
EXTENDS Integers, Sequences, FiniteSets, TLC

VARIABLES
    pc,             \* the orchestrator's position in run_pipeline
    run,            \* number of the current run (one process per run)
    exited,         \* the process of the current run has ended
    exitStatus,     \* its exit status (meaningful once exited)
    qdrant_client,  \* the module-global client singleton of db/qdrant.py
    collections,    \* the vector store: collection name -> configuration and points
    posts,          \* run_pipeline's local `posts`
    invoked,        \* the stages run_pipeline has called in this run, in order
    storeCalls,     \* the store API calls issued in this run, in order
    bootFault,      \* the store call that was going to fail during the bootstrap
    bootError,      \* the error that occurred inside initialize_qdrant_collection
    hot,            \* the listing the forum served to fetch_subreddit_posts
    fetchError,     \* the error that occurred inside fetch_subreddit_posts
    fetchFailAt,    \* the listing position at which it occurred (0: none)
    upsertError,    \* the error that occurred inside upsert_posts_to_qdrant
    lastWritten,    \* post id -> the post of its last accepted upsert (<<>>: none)
    writeCount,     \* post id -> number of accepted upserts of that id
    fl_tree,        \* get_comments_text: the comment sequence it iterates
    fl_called,      \* get_comments_text has been applied to fl_tree
    fl_max_comments,\* the max_comments it was called with
    fl_max_depth,   \* the max_depth it was called with
    fl_accepted,    \* its local comments_text at return
    fl_out          \* the text it returned

pipelineVars == <<pc, run, exited, exitStatus, qdrant_client, collections, posts,
                  invoked, storeCalls, bootFault, bootError, hot, fetchError,
                  fetchFailAt, upsertError, lastWritten, writeCount>>

flattenVars == <<fl_tree, fl_called, fl_max_comments, fl_max_depth, fl_accepted, fl_out>>

vars == <<pipelineVars, flattenVars>>

---------------------------------------------------------------------------
(* Bounds of the model *)

\* number of successive runs of the pipeline against the same store
MaxRuns == 2
\* length of the listing the forum serves
MaxListing == 2
\* length of the comment sequence handed to get_comments_text
MaxTree == 3

\* the max_comments and max_depth arguments tried, and the depths of a comment
Limits == 0..2
NodeDepths == 0..2

(* Program constants *)

\* config.py: fetch_limit
fetch_limit == 5
\* reddit.py: get_comments_text's default max_comments
DefaultMaxComments == 20
\* reddit.py: get_comments_text's default max_depth
DefaultMaxDepth == 5
\* qdrant.py: VectorParams(size=384)
VectorSize == 384
\* qdrant.py: HnswConfigDiff(m=16)
HnswM == 16
\* qdrant.py: HnswConfigDiff(ef_construct=100)
HnswEfConstruct == 100
\* dimensionalities a collection created by another deployment may have
ForeignVectorSizes == {768}

qdrant_collection_name == "reddit_posts"
embedding_model_name == "all-MiniLM-L6-v2"
target_subreddit == "learnpython"
REDDIT_ID_NAMESPACE == "NAMESPACE_URL"

---------------------------------------------------------------------------
(* Text: token sequences *)

Whitespace == {" ", "\n"}

RECURSIVE lstrip(_)
lstrip(s) ==
    IF s # <<>> /\ Head(s) \in Whitespace THEN lstrip(Tail(s)) ELSE s

RECURSIVE rstrip(_)
rstrip(s) ==
    IF s # <<>> /\ s[Len(s)] \in Whitespace THEN rstrip(SubSeq(s, 1, Len(s) - 1)) ELSE s

\* str.strip()
strip(s) == rstrip(lstrip(s))

\* sep.join(list)
RECURSIVE join(_, _)
join(sep, list) ==
    IF list = <<>> THEN <<>>
    ELSE IF Len(list) = 1 THEN list[1]
    ELSE list[1] \o sep \o join(sep, Tail(list))

COMMENT_SEPARATOR == <<"\n", "---", "\n">>
DELETED == <<"[deleted]">>
REMOVED == <<"[removed]">>

---------------------------------------------------------------------------
(* Comment Flattener: reddit.py get_comments_text *)

\* The nodes submission.comments.list() may hold.  A placeholder (MoreComments)
\* has no body of its own; it is given a marker text here so that a flattener
\* that let it through would show it in its output.
MORE_MARKER == <<"load", " ", "more">>

CommentBodies == {<<>>, DELETED, REMOVED, <<"first">>, <<"second">>}

CommentNodes ==
    [kind : {"comment"}, depth : NodeDepths, body : CommentBodies]
    \cup {[kind |-> "more", depth |-> 0, body |-> MORE_MARKER]}

\* isinstance(comment, MoreComments)
is_more_comments(comment) == comment.kind = "more"

\* faulty variant of too_deep: the depth test is > instead of >=
too_deep_gt(comment, max_depth) == comment.depth > max_depth

\* hasattr(comment, 'depth') and comment.depth >= max_depth
too_deep(comment, max_depth) == comment.depth >= max_depth

\* comment.body and comment.body != '[deleted]' and comment.body != '[removed]'
has_real_body(comment) ==
    comment.body # <<>> /\ comment.body # DELETED /\ comment.body # REMOVED

\* The for loop of get_comments_text from position i on, with its locals
\* comments_text and comment_count; the value is comments_text at loop exit.
RECURSIVE comments_loop(_, _, _, _, _, _)
comments_loop(list, i, comments_text, comment_count, max_comments, max_depth) ==
    IF i > Len(list) THEN comments_text
    ELSE IF comment_count >= max_comments THEN comments_text                  \* break
    ELSE IF is_more_comments(list[i]) \/ too_deep(list[i], max_depth)
         THEN comments_loop(list, i + 1, comments_text, comment_count,
                            max_comments, max_depth)                          \* continue
    ELSE IF has_real_body(list[i])
         THEN comments_loop(list, i + 1, Append(comments_text, list[i].body),
                            comment_count + 1, max_comments, max_depth)
    ELSE comments_loop(list, i + 1, comments_text, comment_count,
                       max_comments, max_depth)

get_comments_text(list, max_comments, max_depth) ==
    join(COMMENT_SEPARATOR, comments_loop(list, 1, <<>>, 0, max_comments, max_depth))

---------------------------------------------------------------------------
(* Exceptions *)

\* The exception classes that occur, and which `except` clause catches which.
\* "PRAWException" is a subclass of Exception; SystemExit is not.
catches(clause, exc) ==
    \/ clause = exc
    \/ clause = "Exception" /\ exc = "PRAWException"

\* what a failed call to the forum raises: a praw.exceptions.PRAWException, or
\* some other Exception (a prawcore request or response error)
ForumExceptions == {"PRAWException", "Exception"}

---------------------------------------------------------------------------
(* Post Fetcher: reddit.py fetch_subreddit_posts *)

PostIds == {"abc123", "def456"}

\* the comment sequences a submission may carry
CommentLists ==
    { << [kind |-> "comment", depth |-> 0, body |-> <<"first">>],
         [kind |-> "comment", depth |-> 1, body |-> DELETED],
         [kind |-> "more", depth |-> 0, body |-> MORE_MARKER],
         [kind |-> "comment", depth |-> 0, body |-> <<"second">>] >>,
      << [kind |-> "comment", depth |-> 0, body |-> <<"second">>] >> }

\* a link post has no self-text
SelfTextOf(id) == IF id = "abc123" THEN <<>> ELSE <<"body", " ", "text", "\n">>

Submissions ==
    { [id |-> i, title |-> <<"title", " ", i>>, url |-> <<"https://redd.it/", i>>,
       selftext |-> SelfTextOf(i), stickied |-> st, comments |-> c] :
         i \in PostIds, st \in BOOLEAN, c \in CommentLists }

\* what subreddit.hot can serve: no submission is listed twice
Listings ==
    { l \in UNION { [1..n -> Submissions] : n \in 0..MaxListing } :
        \A i, j \in DOMAIN l : i # j => l[i].id # l[j].id }

\* subreddit.hot(limit=limit): at most `limit` submissions of the listing
hot_listing(listing, limit) ==
    SubSeq(listing, 1, IF Len(listing) < limit THEN Len(listing) ELSE limit)

\* post_content = f"Title: {submission.title}\n\n{submission.selftext}"
post_content(submission) ==
    <<"Title:", " ">> \o submission.title \o <<"\n", "\n">> \o submission.selftext

\* the dictionary appended to posts_data
normalized_post(submission) ==
    LET comments == get_comments_text(submission.comments,
                                      DefaultMaxComments, DefaultMaxDepth)
    IN  [id |-> submission.id,
         title |-> submission.title,
         url |-> submission.url,
         content |-> strip(post_content(submission)),
         comments |-> comments,
         combined_text |-> strip(post_content(submission))
                           \o <<"\n", "\n", "Comments:", "\n">> \o comments]

NoFailure == [at |-> 0, during |-> "none", exc |-> "none"]

\* The failures of the forum during one fetch: the request for the at-th
\* submission of the listing fails ("listing"), or the expansion of that
\* submission's comment tree (replace_more / list) fails ("comments").
ForumFailures(listing) ==
    {NoFailure} \cup
    [at : 1..(Len(listing) + 1), during : {"listing"}, exc : ForumExceptions] \cup
    [at : 1..Len(listing), during : {"comments"}, exc : ForumExceptions]

\* The body of the try block from the i-th submission on, with its local
\* posts_data: the value is posts_data when the block is left, with the
\* exception that left it (if any) and where.
RECURSIVE fetch_loop(_, _, _, _)
fetch_loop(subs, i, posts_data, failure) ==
    IF failure.at = i /\ failure.during = "listing"
    THEN [posts_data |-> posts_data, error |-> failure.exc, at |-> i]
    ELSE IF i > Len(subs)
    THEN [posts_data |-> posts_data, error |-> "none", at |-> 0]
    ELSE IF subs[i].stickied
    THEN fetch_loop(subs, i + 1, posts_data, failure)                         \* continue
    ELSE IF failure.at = i /\ failure.during = "comments"
    THEN [posts_data |-> posts_data, error |-> failure.exc, at |-> i]
    ELSE fetch_loop(subs, i + 1, Append(posts_data, normalized_post(subs[i])), failure)

\* faulty variant of fetch_except: only PRAWException is caught
fetch_except_praw_only(exc) ==
    IF catches("PRAWException", exc) THEN "none" ELSE exc

\* the except clauses of fetch_subreddit_posts: what still propagates
fetch_except(exc) ==
    IF catches("PRAWException", exc) THEN "none"
    ELSE IF catches("Exception", exc) THEN "none"
    ELSE exc

\* faulty variant of fetch_return: a failed fetch returns nothing
fetch_return_empty_on_error(posts_data, error) ==
    IF error = "none" THEN posts_data ELSE <<>>

\* `return posts_data`, after the try statement
fetch_return(posts_data, error) == posts_data

fetch_subreddit_posts(listing, limit, failure) ==
    LET r == fetch_loop(hot_listing(listing, limit), 1, <<>>, failure)
    IN  [error |-> r.error,
         at |-> r.at,
         raised |-> fetch_except(r.error),
         posts |-> fetch_return(r.posts_data, r.error)]

---------------------------------------------------------------------------
(* The vector store, as the client calls of db/qdrant.py use it *)

CollectionNames == {qdrant_collection_name, "other_collection"}

EmptyPoints == [id \in {} |-> id]

NewCollection(size, distance, m, ef_construct) ==
    [size |-> size, distance |-> distance, m |-> m, ef_construct |-> ef_construct,
     points |-> EmptyPoints]

\* client.get_collections(): the names of the collections of the store
store_get_collections(colls) == DOMAIN colls

\* client.create_collection(...): the store refuses a name it already holds
store_create_collection(colls, name, size, distance, m, ef_construct) ==
    IF name \in DOMAIN colls
    THEN [collections |-> colls, error |-> "Exception"]
    ELSE [collections |-> (name :> NewCollection(size, distance, m, ef_construct)) @@ colls,
          error |-> "none"]

\* client.get_collection(collection_name=...): fails for an unknown name
store_get_collection(colls, name) ==
    IF name \in DOMAIN colls THEN "none" ELSE "Exception"

\* the points of a batch written one after the other: a later point with the
\* id of an earlier one, or of a stored one, replaces it whole
RECURSIVE write_points(_, _, _)
write_points(stored, points, i) ==
    IF i > Len(points) THEN stored
    ELSE write_points(
           (points[i].id :> [vector |-> points[i].vector, payload |-> points[i].payload])
             @@ stored,
           points, i + 1)

\* client.upsert(collection_name=..., points=..., wait=True): all or nothing;
\* the store rejects the batch if the collection is unknown or a vector's
\* length is not the collection's dimensionality
store_upsert(colls, name, points) ==
    IF name \notin DOMAIN colls
    THEN [collections |-> colls, error |-> "Exception", status |-> "none"]
    ELSE IF \E i \in DOMAIN points : points[i].vector.dim # colls[name].size
    THEN [collections |-> colls, error |-> "Exception", status |-> "none"]
    ELSE [collections |->
            [colls EXCEPT ![name].points = write_points(colls[name].points, points, 1)],
          error |-> "none", status |-> "completed"]

---------------------------------------------------------------------------
(* db/qdrant.py *)

\* get_qdrant_client(): the singleton is built on first use; a failure to
\* build it is raised as SystemExit
get_qdrant_client(client, construction_fails) ==
    IF client = "None"
    THEN IF construction_fails
         THEN [client |-> "None", raised |-> "SystemExit"]
         ELSE [client |-> "QdrantClient", raised |-> "none"]
    ELSE [client |-> client, raised |-> "none"]

\* faulty variant of collection_missing: the collection is always created
collection_missing_always(collection_name, collection_names) == TRUE

\* collection_name not in collection_names
collection_missing(collection_name, collection_names) ==
    collection_name \notin collection_names

\* faulty variant of initialize_except: the error is logged and swallowed
initialize_except_swallow(exc) == "none"

\* `except Exception as e: logger.exception(...); raise`
initialize_except(exc) == exc

\* what can go wrong with the store while the collection is initialised
BootFaults == {"none", "client", "get_collections", "create_collection", "get_collection"}

\* the try block of initialize_qdrant_collection
initialize_try(colls, fault) ==
    IF fault = "get_collections"
    THEN [collections |-> colls, calls |-> <<"get_collections">>, error |-> "Exception"]
    ELSE
      LET collection_names == store_get_collections(colls)
          missing == collection_missing(qdrant_collection_name, collection_names)
          created ==
            IF ~missing THEN [collections |-> colls, error |-> "none"]
            ELSE IF fault = "create_collection"
                 THEN [collections |-> colls, error |-> "Exception"]
                 ELSE store_create_collection(colls, qdrant_collection_name, VectorSize,
                                              "Cosine", HnswM, HnswEfConstruct)
          calls1 == IF missing THEN <<"get_collections", "create_collection">>
                    ELSE <<"get_collections">>
      IN  IF created.error # "none"
          THEN [collections |-> created.collections, calls |-> calls1,
                error |-> created.error]
          ELSE [collections |-> created.collections,
                calls |-> Append(calls1, "get_collection"),
                error |-> IF fault = "get_collection" THEN "Exception"
                          ELSE store_get_collection(created.collections,
                                                    qdrant_collection_name)]

initialize_qdrant_collection(client, colls, fault) ==
    LET c == get_qdrant_client(client, fault = "client")
        t == initialize_try(colls, fault)
    IN  IF c.raised # "none"
        THEN [client |-> c.client, collections |-> colls, calls |-> <<>>,
              error |-> c.raised, raised |-> c.raised]
        ELSE [client |-> c.client, collections |-> t.collections, calls |-> t.calls,
              error |-> t.error,
              raised |-> IF t.error = "none" THEN "none" ELSE initialize_except(t.error)]

\* str(uuid.uuid5(namespace, name)): a function of namespace and name alone,
\* different for different names
uuid5(namespace, name) == <<"uuid5", namespace, name>>

\* faulty variant of point_ids: the id is derived from the literal "id", not
\* from the post's id
point_ids_from_literal(posts_arg) ==
    [i \in DOMAIN posts_arg |-> uuid5(REDDIT_ID_NAMESPACE, "id")]

\* point_ids = [str(uuid.uuid5(REDDIT_ID_NAMESPACE, post["id"])) for post in posts]
point_ids(posts_arg) ==
    [i \in DOMAIN posts_arg |-> uuid5(REDDIT_ID_NAMESPACE, posts_arg[i].id)]

\* documents_to_embed = [post["combined_text"] for post in posts]
documents_to_embed(posts_arg) ==
    [i \in DOMAIN posts_arg |-> posts_arg[i].combined_text]

payload_of(post) ==
    [reddit_id |-> post.id, title |-> post.title, url |-> post.url,
     content |-> post.content, comments |-> post.comments]

\* payloads = [{...} for post in posts]
payloads(posts_arg) == [i \in DOMAIN posts_arg |-> payload_of(posts_arg[i])]

\* model.encode(documents).tolist(): one vector per document, of the model's
\* dimensionality, a function of the model and the document
encode(model, documents) ==
    [i \in DOMAIN documents |-> [dim |-> VectorSize, model |-> model, of |-> documents[i]]]

\* [PointStruct(id=.., vector=.., payload=..) for .. in zip(point_ids, vectors, payloads)]
point_structs(ids, vectors, plds) ==
    [i \in (DOMAIN ids \cap DOMAIN vectors \cap DOMAIN plds) |->
        [id |-> ids[i], vector |-> vectors[i], payload |-> plds[i]]]

\* faulty variant of upsert_except: the error is raised again
upsert_except_reraise(exc) == exc

\* `except Exception as e: logger.exception(...)`: nothing is raised again
upsert_except(exc) == IF catches("Exception", exc) THEN "none" ELSE exc

\* what can go wrong while the posts are embedded and written
UpsertFaults == {"none", "client", "model_load", "encode", "upsert"}

\* the try block of upsert_posts_to_qdrant
upsert_try(colls, posts_arg, fault) ==
    IF fault = "model_load" \/ fault = "encode"
    THEN [collections |-> colls, calls |-> <<>>, error |-> "Exception"]
    ELSE
      LET vectors == encode(embedding_model_name, documents_to_embed(posts_arg))
          points == point_structs(point_ids(posts_arg), vectors, payloads(posts_arg))
          response == IF fault = "upsert"
                      THEN [collections |-> colls, error |-> "Exception", status |-> "none"]
                      ELSE store_upsert(colls, qdrant_collection_name, points)
      IN  [collections |-> response.collections, calls |-> <<"upsert">>,
           error |-> response.error]

upsert_posts_to_qdrant(client, colls, posts_arg, fault) ==
    LET c == get_qdrant_client(client, fault = "client")
        t == upsert_try(colls, posts_arg, fault)
    IN  IF c.raised # "none"
        THEN [client |-> c.client, collections |-> colls, calls |-> <<>>,
              error |-> c.raised, raised |-> c.raised]
        ELSE IF posts_arg = <<>>
        THEN [client |-> c.client, collections |-> colls, calls |-> <<>>,
              error |-> "none", raised |-> "none"]
        ELSE [client |-> c.client, collections |-> t.collections, calls |-> t.calls,
              error |-> t.error,
              raised |-> IF t.error = "none" THEN "none" ELSE upsert_except(t.error)]

---------------------------------------------------------------------------
(* main.py run_pipeline *)

\* faulty variant of no_posts: the empty result is not tested for
no_posts_never(posts_arg) == FALSE

\* `if not posts:`
no_posts(posts_arg) == posts_arg = <<>>

\* faulty variant of pipeline_except: the handlers exit with status 0
pipeline_except_exit0(exc) == 0

\* `except SystemExit: sys.exit(1)` and `except Exception: sys.exit(1)`: the
\* exit status of the process
pipeline_except(exc) ==
    IF catches("SystemExit", exc) THEN 1
    ELSE IF catches("Exception", exc) THEN 1
    ELSE 1

Terminal == {"Upserted", "FinishedEmpty", "Failed"}

EmptyStore == [n \in {} |-> n]

OtherStores ==
    { EmptyStore,
      "other_collection" :> NewCollection(VectorSize, "Dot", HnswM, HnswEfConstruct) }

\* the store a first run may find: the target collection absent, created by an
\* earlier deployment of this program, or created with another dimensionality
InitialStores ==
    OtherStores \cup
    { (qdrant_collection_name :> NewCollection(sz, "Cosine", HnswM, HnswEfConstruct)) @@ o :
        sz \in {VectorSize} \cup ForeignVectorSizes, o \in OtherStores }

Init ==
    /\ pc = "Init"
    /\ run = 1
    /\ exited = FALSE
    /\ exitStatus = 0
    /\ qdrant_client = "None"
    /\ collections \in InitialStores
    /\ posts = <<>>
    /\ invoked = <<>>
    /\ storeCalls = <<>>
    /\ bootFault = "none"
    /\ bootError = "none"
    /\ hot = <<>>
    /\ fetchError = "none"
    /\ fetchFailAt = 0
    /\ upsertError = "none"
    /\ lastWritten = [id \in PostIds |-> <<>>]
    /\ writeCount = [id \in PostIds |-> 0]
    /\ fl_tree = <<>>
    /\ fl_called = FALSE
    /\ fl_max_comments = 0
    /\ fl_max_depth = 0
    /\ fl_accepted = <<>>
    /\ fl_out = <<>>

\* Step 1: initialize_qdrant_collection()
Bootstrap ==
    /\ pc = "Init"
    /\ \E fault \in BootFaults :
         \E r \in {initialize_qdrant_collection(qdrant_client, collections, fault)} :
             /\ qdrant_client' = r.client
             /\ collections' = r.collections
             /\ storeCalls' = storeCalls \o r.calls
             /\ bootFault' = fault
             /\ bootError' = r.error
             /\ IF r.raised = "none"
                THEN /\ pc' = "Bootstrapped"
                     /\ UNCHANGED <<exited, exitStatus>>
                ELSE /\ pc' = "Failed"
                     /\ exited' = TRUE
                     /\ exitStatus' = pipeline_except(r.raised)
    /\ invoked' = Append(invoked, "bootstrap")
    /\ UNCHANGED <<run, posts, hot, fetchError, fetchFailAt, upsertError,
                   lastWritten, writeCount, flattenVars>>

\* Step 2: posts = fetch_subreddit_posts(settings.target_subreddit, limit=settings.fetch_limit)
Fetch ==
    /\ pc = "Bootstrapped"
    /\ \E listing \in Listings :
         /\ hot' = listing
         /\ \E failure \in ForumFailures(listing) :
             \E r \in {fetch_subreddit_posts(listing, fetch_limit, failure)} :
             /\ fetchError' = r.error
             /\ fetchFailAt' = r.at
             /\ IF r.raised = "none"
                THEN /\ pc' = "Fetched"
                     /\ posts' = r.posts
                     /\ UNCHANGED <<exited, exitStatus>>
                ELSE /\ pc' = "Failed"
                     /\ posts' = posts
                     /\ exited' = TRUE
                     /\ exitStatus' = pipeline_except(r.raised)
    /\ invoked' = Append(invoked, "fetch")
    /\ UNCHANGED <<run, qdrant_client, collections, storeCalls, bootFault, bootError,
                   upsertError,
                   lastWritten, writeCount, flattenVars>>

\* `if not posts: ... return`: the run ends without an upsert
ExitEmpty ==
    /\ pc = "Fetched"
    /\ no_posts(posts)
    /\ pc' = "FinishedEmpty"
    /\ exited' = TRUE
    /\ exitStatus' = 0
    /\ UNCHANGED <<run, qdrant_client, collections, posts, invoked, storeCalls, bootFault,
                   bootError, hot, fetchError, fetchFailAt, upsertError, lastWritten,
                   writeCount, flattenVars>>

\* Step 3: upsert_posts_to_qdrant(posts), and the return that follows it
Upsert ==
    /\ pc = "Fetched"
    /\ ~no_posts(posts)
    /\ \E fault \in UpsertFaults :
         \E r \in {upsert_posts_to_qdrant(qdrant_client, collections, posts, fault)} :
         LET accepted == r.error = "none" /\ r.calls # <<>>
             ids == {posts[i].id : i \in DOMAIN posts}
             last(id) == CHOOSE i \in DOMAIN posts :
                            /\ posts[i].id = id
                            /\ \A j \in DOMAIN posts : posts[j].id = id => j <= i
         IN  /\ qdrant_client' = r.client
             /\ collections' = r.collections
             /\ storeCalls' = storeCalls \o r.calls
             /\ upsertError' = r.error
             /\ lastWritten' = [id \in PostIds |->
                                  IF accepted /\ id \in ids THEN <<posts[last(id)]>>
                                  ELSE lastWritten[id]]
             /\ writeCount' = [id \in PostIds |->
                                 IF accepted /\ id \in ids THEN writeCount[id] + 1
                                 ELSE writeCount[id]]
             /\ exited' = TRUE
             /\ IF r.raised = "none"
                THEN /\ pc' = "Upserted"
                     /\ exitStatus' = 0
                ELSE /\ pc' = "Failed"
                     /\ exitStatus' = pipeline_except(r.raised)
    /\ invoked' = Append(invoked, "upsert")
    /\ UNCHANGED <<run, posts, bootFault, bootError, hot, fetchError, fetchFailAt, flattenVars>>

\* `if __name__ == "__main__": run_pipeline()`: the program is started again,
\* in a new process, against the same store
StartRun ==
    /\ pc \in Terminal
    /\ run < MaxRuns
    /\ run' = run + 1
    /\ pc' = "Init"
    /\ exited' = FALSE
    /\ exitStatus' = 0
    /\ qdrant_client' = "None"
    /\ posts' = <<>>
    /\ invoked' = <<>>
    /\ storeCalls' = <<>>
    /\ bootFault' = "none"
    /\ bootError' = "none"
    /\ hot' = <<>>
    /\ fetchError' = "none"
    /\ fetchFailAt' = 0
    /\ upsertError' = "none"
    /\ UNCHANGED <<collections, lastWritten, writeCount, flattenVars>>

RunStep == Bootstrap \/ Fetch \/ ExitEmpty \/ Upsert

Next == StartRun \/ Bootstrap \/ Fetch \/ ExitEmpty \/ Upsert

Spec == Init /\ [][Next]_vars

\* run_pipeline is one sequential pass: a stage that can run does run
FairSpec == Init /\ [][Next]_vars /\ WF_vars(RunStep)

---------------------------------------------------------------------------
(* get_comments_text applied to every comment sequence within the bounds *)

\* the forum serves one more comment of the sequence
AddComment ==
    /\ ~fl_called
    /\ Len(fl_tree) < MaxTree
    /\ \E c \in CommentNodes : fl_tree' = Append(fl_tree, c)
    /\ UNCHANGED <<fl_called, fl_max_comments, fl_max_depth, fl_accepted, fl_out,
                   pipelineVars>>

\* get_comments_text(submission, max_comments, max_depth)
CallFlatten ==
    /\ ~fl_called
    /\ \E mc \in Limits, md \in Limits :
         /\ fl_max_comments' = mc
         /\ fl_max_depth' = md
         /\ fl_accepted' = comments_loop(fl_tree, 1, <<>>, 0, mc, md)
         /\ fl_out' = get_comments_text(fl_tree, mc, md)
    /\ fl_called' = TRUE
    /\ UNCHANGED <<fl_tree, pipelineVars>>

FlattenInit == Init /\ collections = EmptyStore

FlattenNext == AddComment \/ CallFlatten

FlattenSpec == FlattenInit /\ [][FlattenNext]_vars

---------------------------------------------------------------------------
(* Properties *)

InvokedSet == {invoked[i] : i \in DOMAIN invoked}

TargetExists == qdrant_collection_name \in DOMAIN collections

TargetPoints ==
    IF TargetExists THEN collections[qdrant_collection_name].points ELSE EmptyPoints

ReadCalls == {"get_collections", "get_collection"}

\* C1: a post that has been upserted, once or again in a later run, has exactly
\* one record in the store, under the point id mapped from its id, and that
\* record carries the payload and the vector of the last write; the store holds
\* as many records as there are distinct post ids written, so a repeated upsert
\* does not add one.
C1_UpsertIdempotent ==
    /\ \A id \in PostIds :
         writeCount[id] >= 1 =>
           LET post == lastWritten[id][1]
               pid == uuid5(REDDIT_ID_NAMESPACE, id)
           IN  /\ pid \in DOMAIN TargetPoints
               /\ TargetPoints[pid].payload.reddit_id = id
               /\ TargetPoints[pid].payload.title = post.title
               /\ TargetPoints[pid].payload.url = post.url
               /\ TargetPoints[pid].payload.content = post.content
               /\ TargetPoints[pid].payload.comments = post.comments
               /\ TargetPoints[pid].vector.of = post.combined_text
               /\ TargetPoints[pid].vector.dim = VectorSize
               /\ Cardinality({p \in DOMAIN TargetPoints :
                                 TargetPoints[p].payload.reddit_id = id}) = 1
    /\ Cardinality(DOMAIN TargetPoints)
         = Cardinality({id \in PostIds : writeCount[id] >= 1})

\* a post written in two successive runs, the store holding one record
C1_Witness ==
    /\ run = 2
    /\ pc = "Upserted"
    /\ upsertError = "none"
    /\ \E id \in PostIds : writeCount[id] = 2
    /\ Cardinality(DOMAIN TargetPoints) = 1

\* C2: a call of initialize_qdrant_collection that finds the collection in the
\* store leaves the store as it is and issues read calls only (list collections,
\* get status), no create_collection; unless one of those reads fails, it
\* raises no error.
C2_BootstrapIdempotent ==
    [][ (pc = "Init" /\ pc' # "Init" /\ TargetExists) =>
          /\ collections' = collections
          /\ \A i \in DOMAIN storeCalls' : storeCalls'[i] \in ReadCalls
          /\ (bootFault' \in {"none", "create_collection"} =>
                /\ bootError' = "none"
                /\ pc' = "Bootstrapped"
                /\ storeCalls' = <<"get_collections", "get_collection">>) ]_vars

\* the bootstrap of a second run found the collection and only read
C2_Witness ==
    /\ run = 2
    /\ pc = "Bootstrapped"
    /\ TargetExists
    /\ storeCalls = <<"get_collections", "get_collection">>

\* C3: once the fetcher has returned an empty sequence, the engine is not
\* invoked in that run, the run does not fail, the only step left is the
\* return of run_pipeline, and the process ends with status 0.
C3_EmptyFetchSkipsUpsert ==
    ("fetch" \in InvokedSet /\ pc # "Failed" /\ posts = <<>>) =>
        /\ "upsert" \notin InvokedSet
        /\ pc \in {"Fetched", "FinishedEmpty"}
        /\ (pc = "Fetched" => ENABLED ExitEmpty /\ ~ENABLED Upsert)
        /\ (pc = "FinishedEmpty" => exited /\ exitStatus = 0)
        /\ (exited => pc = "FinishedEmpty")

\* a run that ended after an empty fetch
C3_Witness ==
    /\ pc = "FinishedEmpty"
    /\ invoked = <<"bootstrap", "fetch">>
    /\ posts = <<>>
    /\ exited
    /\ exitStatus = 0

\* C4: an error inside the bootstrapper (building the client, listing, creating,
\* reading the status) ends the run in Failed with a non-zero exit status, and
\* the bootstrapper is the only stage that run has invoked.
C4_BootstrapErrorIsFatal ==
    bootError # "none" =>
        /\ pc = "Failed"
        /\ exited
        /\ exitStatus # 0
        /\ invoked = <<"bootstrap">>
        /\ posts = <<>>

\* the creation of the collection failed
C4_Witness ==
    /\ bootError = "Exception"
    /\ pc = "Failed"
    /\ storeCalls = <<"get_collections", "create_collection">>

\* C5: after a failure of the forum during the fetch, the run has not failed,
\* and the fetcher has returned the posts of the submissions before the failing
\* position that are not stickied, in listing order; the submission at the
\* failing position is not among them.
C5_FetchFailureReturnsPartial ==
    fetchError # "none" =>
        LET served == hot_listing(hot, fetch_limit)
            NotStickied(sub) == ~sub.stickied
            before == SelectSeq(SubSeq(served, 1, fetchFailAt - 1), NotStickied)
        IN  /\ pc \in {"Fetched", "FinishedEmpty", "Upserted"}
            /\ Len(posts) = Len(before)
            /\ \A i \in DOMAIN posts :
                 /\ posts[i].id = before[i].id
                 /\ posts[i].title = before[i].title
                 /\ posts[i].url = before[i].url
                 /\ posts[i].content = strip(post_content(before[i]))
            /\ (fetchFailAt <= Len(served) =>
                  \A i \in DOMAIN posts : posts[i].id # served[fetchFailAt].id)

\* the forum failed on the second submission; the first one was returned
C5_Witness ==
    /\ fetchError # "none"
    /\ fetchFailAt = 2
    /\ Len(posts) = 1
    /\ pc = "Fetched"

\* C6: an error inside the engine (model load, encoding, the store rejecting
\* the write, among them a dimension mismatch) is not raised: the step ends in
\* Upserted with exit status 0 and the store is as it was.
C6_UpsertErrorSwallowed ==
    [][ (pc = "Fetched" /\ upsertError' # "none") =>
          /\ pc' = "Upserted"
          /\ exited'
          /\ exitStatus' = 0
          /\ collections' = collections
          /\ lastWritten' = lastWritten ]_vars

\* the store rejected the write and the run ended as a success
C6_Witness ==
    /\ upsertError = "Exception"
    /\ storeCalls = <<"get_collections", "get_collection", "upsert">>
    /\ pc = "Upserted"
    /\ exited
    /\ exitStatus = 0

\* C7 as stated: a failure in any of the three stages takes the orchestrator
\* to Failed: from Init a bootstrap failure, from Bootstrapped a failure while
\* fetching, from Fetched a failure while embedding and upserting.
C7_FailedFromEveryStage ==
    [][ /\ (pc = "Init" /\ bootError' # "none" => pc' = "Failed")
        /\ (pc = "Bootstrapped" /\ fetchError' # "none" => pc' = "Failed")
        /\ (pc = "Fetched" /\ upsertError' # "none" => pc' = "Failed") ]_vars

PipelineTransitions ==
    { <<"Init", "Bootstrapped">>, <<"Init", "Failed">>, <<"Bootstrapped", "Fetched">>,
      <<"Fetched", "Upserted">>, <<"Fetched", "FinishedEmpty">> }

\* C7 as amended: the orchestrator moves Init -> Bootstrapped -> Fetched ->
\* Upserted (or ends after an empty fetch); Failed, with a non-zero exit, is
\* entered from Init only, by a bootstrap failure; a failure while fetching
\* leaves it in Fetched and a failure in the engine in Upserted.
C7_FailedOnlyFromInit ==
    [][ /\ (pc' # pc /\ run' = run => <<pc, pc'>> \in PipelineTransitions)
        /\ (pc' = "Failed" /\ pc # "Failed" =>
              pc = "Init" /\ bootError' # "none" /\ exited' /\ exitStatus' # 0)
        /\ (pc = "Init" /\ bootError' # "none" => pc' = "Failed")
        /\ (pc = "Bootstrapped" /\ fetchError' # "none" => pc' = "Fetched")
        /\ (pc = "Fetched" /\ upsertError' # "none" => pc' = "Upserted") ]_vars

\* the fetcher and the engine both failed, and the run ended in Upserted
C7_Witness ==
    /\ pc = "Upserted"
    /\ fetchError # "none"
    /\ upsertError # "none"
    /\ invoked = <<"bootstrap", "fetch", "upsert">>

\* C8: the upsert call is only ever issued against a collection whose
\* dimensionality is the length of the embedding vectors.
C8_DimensionCheckedAtStartup ==
    (\E i \in DOMAIN storeCalls : storeCalls[i] = "upsert") =>
        /\ TargetExists
        /\ collections[qdrant_collection_name].size = VectorSize

RECURSIVE JoinedFromRight(_)
JoinedFromRight(bodies) ==
    IF bodies = <<>> THEN <<>>
    ELSE IF Len(bodies) = 1 THEN bodies[1]
    ELSE JoinedFromRight(SubSeq(bodies, 1, Len(bodies) - 1))
           \o <<"\n", "---", "\n">> \o bodies[Len(bodies)]

Qualifies(c, max_depth) ==
    /\ c.kind # "more"
    /\ c.depth < max_depth
    /\ c.body # <<>>
    /\ c.body \notin {<<"[deleted]">>, <<"[removed]">>}

\* C9: get_comments_text returns the bodies of the first max_comments nodes of
\* the sequence that are no placeholder, lie above max_depth and have a body
\* that is neither empty nor a tombstone, in order and joined by "\n---\n"; so
\* it holds at most max_comments bodies, none of a node at depth >= max_depth,
\* no tombstone and no placeholder, and is empty when no node qualifies.
C9_FlattenSelectsFirstQualifying ==
    fl_called =>
        LET Q(c) == Qualifies(c, fl_max_depth)
            qualifying == SelectSeq(fl_tree, Q)
            n == IF Len(qualifying) < fl_max_comments THEN Len(qualifying)
                 ELSE fl_max_comments
        IN  /\ Len(fl_accepted) = n
            /\ \A i \in 1..n : fl_accepted[i] = qualifying[i].body
            /\ fl_out = JoinedFromRight(fl_accepted)
            /\ Len(fl_accepted) <= fl_max_comments
            /\ \A i \in DOMAIN fl_accepted :
                 /\ fl_accepted[i] \notin {<<>>, <<"[deleted]">>, <<"[removed]">>, MORE_MARKER}
                 /\ \E k \in DOMAIN fl_tree :
                      /\ fl_tree[k].body = fl_accepted[i]
                      /\ fl_tree[k].depth < fl_max_depth
                      /\ fl_tree[k].kind = "comment"
            /\ (n = 0 => fl_out = <<>>)

\* three nodes qualify and max_comments = 2 cuts the third
C9_Witness ==
    /\ fl_called
    /\ fl_max_comments = 2
    /\ Len(fl_tree) = 3
    /\ \A i \in DOMAIN fl_tree : Qualifies(fl_tree[i], fl_max_depth)
    /\ fl_accepted = <<fl_tree[1].body, fl_tree[2].body>>
    /\ fl_tree[3].body # fl_tree[2].body

StagesInOrder ==
    /\ \E n \in 0..3 : invoked = SubSeq(<<"bootstrap", "fetch", "upsert">>, 1, n)
    /\ ("fetch" \in InvokedSet => bootError = "none")
    /\ ("upsert" \in InvokedSet => posts # <<>> /\ "fetch" \in InvokedSet)
    /\ (pc \in Terminal <=> exited)
    /\ (pc = "Upserted" => invoked = <<"bootstrap", "fetch", "upsert">>)
    /\ (pc = "FinishedEmpty" => invoked = <<"bootstrap", "fetch">>)

\* C10: in a run the stages are invoked at most once each and in the order
\* bootstrapper, fetcher, engine; the fetcher only after a bootstrap without
\* error, the engine only after a non-empty fetch; once a run has ended
\* (Failed included) it invokes nothing more; and every run that starts ends
\* in Upserted, in the end after an empty fetch, or in Failed.
C10_OneOrderedPassThatEnds ==
    /\ []StagesInOrder
    /\ [][ (pc \in Terminal /\ run' = run) => (pc' = pc /\ invoked' = invoked) ]_vars
    /\ [](pc = "Init" => <>(pc \in Terminal))

\* a second run went through all three stages
C10_Witness ==
    /\ run = 2
    /\ pc = "Upserted"
    /\ invoked = <<"bootstrap", "fetch", "upsert">>
    /\ upsertError = "none"
    /\ bootError = "none"

====
